---- MODULE Spec2Model ----
(***************************************************************************)
(* python-sdk/examples/export_pointclouds_as_obj.py                        *)
(*                                                                         *)
(* export_scene_pointcloud walks the chain of sample_data records of one   *)
(* scene, colours every point of every sweep from six camera images        *)
(* (pointcloud_color_from_image), filters the points by their distance to  *)
(* the ego vehicle, moves them to the global frame and writes them to a    *)
(* text file.                                                              *)
(*                                                                         *)
(* Coordinates are integers and rotations are the rotations whose matrix   *)
(* is integral, so every sum, product and comparison of the code is exact  *)
(* here.  A projected pixel coordinate is the fraction <<num, den>>.  The  *)
(* empty string of the `next` field is the empty sequence <<>>.            *)
(***************************************************************************)
EXTENDS Integers, Sequences, FiniteSets, TLC

\* ------------------------------------------------------------------ bounds
MaxFrames == 2
NumPoints == 2
\* Images up to MaxSide pixels wide or high, and pixel coordinates that are
\* multiples of 1 / d for every d up to MaxDen, in the statement on rounding.
MaxSide == 6
MaxDen == 4

\* ------------------------------------------------- constants of the program
min_dist == 3
max_dist == 30

\* A variant that also accepts the camera channels.
valid_channels_WithCameras ==
    <<"LIDAR_TOP", "RADAR_FRONT", "RADAR_FRONT_RIGHT", "RADAR_FRONT_LEFT",
      "RADAR_BACK_LEFT", "RADAR_BACK_RIGHT", "CAM_FRONT_LEFT", "CAM_FRONT",
      "CAM_FRONT_RIGHT", "CAM_BACK_LEFT", "CAM_BACK", "CAM_BACK_RIGHT">>

valid_channels ==
    <<"LIDAR_TOP", "RADAR_FRONT", "RADAR_FRONT_RIGHT", "RADAR_FRONT_LEFT",
      "RADAR_BACK_LEFT", "RADAR_BACK_RIGHT">>

camera_channels ==
    <<"CAM_FRONT_LEFT", "CAM_FRONT", "CAM_FRONT_RIGHT",
      "CAM_BACK_LEFT", "CAM_BACK", "CAM_BACK_RIGHT">>

Range(s) == {s[i] : i \in DOMAIN s}

\* Op(e), with e evaluated once however often Op uses its argument.
Let1(e, Op(_)) == CHOOSE y \in {Op(x) : x \in {e}} : TRUE

\* ------------------------------------------------------------ vector algebra
\* Quaternion(q).rotation_matrix: q is normalised first, so the matrix of the
\* integer quaternion <<w, x, y, z>> is the homogeneous form divided by |q|^2.
RotationMatrix(q) ==
    Let1(q, LAMBDA a :
    LET w == a[1]
        x == a[2]
        y == a[3]
        z == a[4]
        n == w*w + x*x + y*y + z*z
    IN  << << (w*w + x*x - y*y - z*z) \div n, (2*(x*y - w*z)) \div n, (2*(x*z + w*y)) \div n >>,
           << (2*(x*y + w*z)) \div n, (w*w - x*x + y*y - z*z) \div n, (2*(y*z - w*x)) \div n >>,
           << (2*(x*z - w*y)) \div n, (2*(y*z + w*x)) \div n, (w*w - x*x - y*y + z*z) \div n >> >>)

\* rotation_matrix.T
Transpose(M) ==
    Let1(M, LAMBDA N :
    << <<N[1][1], N[2][1], N[3][1]>>,
       <<N[1][2], N[2][2], N[3][2]>>,
       <<N[1][3], N[2][3], N[3][3]>> >>)

\* PointCloud.rotate on one point: p := M . p
Rotate(p, M) ==
    Let1(<<p, M>>, LAMBDA a :
    LET q == a[1]
        N == a[2]
    IN  << N[1][1]*q[1] + N[1][2]*q[2] + N[1][3]*q[3],
           N[2][1]*q[1] + N[2][2]*q[2] + N[2][3]*q[3],
           N[3][1]*q[1] + N[3][2]*q[2] + N[3][3]*q[3] >>)

\* PointCloud.translate on one point: p := p + t
Translate(p, t) ==
    Let1(<<p, t>>, LAMBDA a : <<a[1][1] + a[2][1], a[1][2] + a[2][2], a[1][3] + a[2][3]>>)

\* -np.array(translation)
Neg(t) == Let1(t, LAMBDA a : <<0 - a[1], 0 - a[2], 0 - a[3]>>)

\* view_points(points, K, normalize=True) on one point: K . p, then the first
\* two rows divided by the third.  The quotients are kept as fractions.
view_points(p, K) ==
    Let1(Rotate(p, K), LAMBDA h : [u |-> <<h[1], h[3]>>, v |-> <<h[2], h[3]>>])

\* IEEE comparison of the quotient num/den with the integer k: a zero
\* denominator gives +inf, -inf or nan, and nan compares false.
FracGT(fr, k) ==
    IF fr[2] > 0 THEN fr[1] > k * fr[2]
    ELSE IF fr[2] < 0 THEN fr[1] < k * fr[2]
    ELSE fr[1] > 0

FracLT(fr, k) ==
    IF fr[2] > 0 THEN fr[1] < k * fr[2]
    ELSE IF fr[2] < 0 THEN fr[1] > k * fr[2]
    ELSE fr[1] < 0

\* numpy round() of num/den, den > 0: to the nearest integer, halves to even.
RoundHalfEven(fr) ==
    LET fl == fr[1] \div fr[2]
        r2 == 2 * (fr[1] - fl * fr[2])
    IN  IF r2 < fr[2] THEN fl
        ELSE IF r2 > fr[2] THEN fl + 1
        ELSE IF fl % 2 = 0 THEN fl ELSE fl + 1

\* "{:.4f}".format(c / 255.0), in units of 1e-4.  c * 10000 / 255 is never
\* half-way between two such units, so the nearest unit is unambiguous.
Fmt4(c) == (2 * c * 10000 + 255) \div 510

\* "{:.8f}".format(x) of an integral coordinate: <<integer part, 8 decimals>>.
Fmt8(x) == <<x, 0>>

\* ------------------------------------------------------------ the data set
\* calibrated_sensor records.  Ego frame: x forward, y left, z up.  Camera
\* frame: x right, y down, z forward.
CalibratedSensor ==
    [ LIDAR_TOP      |-> [rotation |-> <<1, 0, 0, -1>>, translation |-> <<1, 0, 2>>,
                          camera_intrinsic |-> <<>>],
      RADAR_FRONT    |-> [rotation |-> <<1, 0, 0, 0>>, translation |-> <<3, 2, 1>>,
                          camera_intrinsic |-> <<>>],
      CAM_FRONT_LEFT |-> [rotation |-> <<1, -1, 0, 0>>, translation |-> <<1, 1, 1>>,
                          camera_intrinsic |-> << <<2, 0, 2>>, <<0, 2, 2>>, <<0, 0, 1>> >>],
      CAM_FRONT      |-> [rotation |-> <<1, -1, 1, -1>>, translation |-> <<2, 0, 1>>,
                          camera_intrinsic |-> << <<1, 0, 2>>, <<0, 1, 2>>, <<0, 0, 1>> >>],
      CAM_FRONT_RIGHT |-> [rotation |-> <<0, 0, 1, -1>>, translation |-> <<1, -1, 1>>,
                          camera_intrinsic |-> << <<1, 0, 2>>, <<0, 1, 1>>, <<0, 0, 1>> >>],
      CAM_BACK_LEFT  |-> [rotation |-> <<1, -1, 0, 0>>, translation |-> <<0, 1, 1>>,
                          camera_intrinsic |-> << <<1, 0, 2>>, <<0, 1, 2>>, <<0, 0, 1>> >>],
      CAM_BACK       |-> [rotation |-> <<1, -1, -1, 1>>, translation |-> <<0, 0, 0>>,
                          camera_intrinsic |-> << <<1, 0, 0>>, <<0, 1, 0>>, <<0, 0, 1>> >>],
      CAM_BACK_RIGHT |-> [rotation |-> <<0, 0, 1, -1>>, translation |-> <<0, -1, 1>>,
                          camera_intrinsic |-> << <<1, 0, 3>>, <<0, 1, 2>>, <<0, 0, 1>> >>] ]

\* im.size = (width, height) of each camera image.
ImSize ==
    [ CAM_FRONT_LEFT |-> <<5, 5>>, CAM_FRONT |-> <<5, 4>>, CAM_FRONT_RIGHT |-> <<3, 3>>,
      CAM_BACK_LEFT |-> <<4, 5>>, CAM_BACK |-> <<4, 4>>, CAM_BACK_RIGHT |-> <<6, 4>> ]

CamIndex(cam) == CHOOSE k \in DOMAIN camera_channels : camera_channels[k] = cam

\* np.array(im): rows 0..height-1, columns 0..width-1, three channels 0..255.
\* No two cameras share a pixel value.
ImData(cam) ==
    LET c == CamIndex(cam)
    IN  [row \in 0..(ImSize[cam][2] - 1) |->
          [col \in 0..(ImSize[cam][1] - 1) |->
            IF cam = "CAM_BACK" /\ row = 0 /\ col = 0 THEN <<255, 0, 0>>
            ELSE IF cam = "CAM_BACK" /\ row = 2 /\ col = 2 THEN <<128, 64, 32>>
            ELSE <<30 * c + 5 * row + col, 7 * row + c, 11 * col + c>>]]

\* The ego poses the records of one sample can hold: the pose of the sweep,
\* and how far along its own x axis the vehicle had moved when the camera
\* images of the sample were taken.
FramePoses ==
    { [ego |-> [rotation |-> <<1, 0, 0, 0>>, translation |-> <<10, 5, 0>>], lag |-> 0],
      [ego |-> [rotation |-> <<1, 0, 0, 1>>, translation |-> <<-4, 20, 1>>], lag |-> 1] }

\* Points of a sweep, in the sensor frame.  Their ego-frame coordinates are
\* (y + 1, -x, z + 2) with the LIDAR_TOP calibration, as noted on each, and
\* (x + 3, y + 2, z + 1) with the RADAR_FRONT calibration.
PointSet ==
    { <<7, 5, -2>>,      \* ego (6,-7,0):  front, front-right and back-right
      <<0, 29, -2>>,     \* ego (30,0,0):  distance exactly max_dist, front;
                         \*                radar: beyond max_dist, both left cameras
      <<-3, -1, -2>>,    \* ego (0,3,0):   distance exactly min_dist, back-left;
                         \*                u = 1 exactly in front-left
      <<-2, -1, -2>>,    \* ego (0,2,0):   nearer than min_dist, back-left
      <<0, -6, -2>>,     \* ego (-5,0,0):  (0,0,5) in CAM_BACK, pixel (0,0)
      <<-6, -4, -8>> }   \* ego (-3,6,-6): back-left and back, pixel (2,2)

\* The channel names a caller passes.  The data set holds no record of
\* RADAR_BACK_LEFT, CAM_FRONT is no range sensor, LIDAR_BOTTOM is no channel.
InputChannels == {"LIDAR_TOP", "RADAR_FRONT", "RADAR_BACK_LEFT", "CAM_FRONT", "LIDAR_BOTTOM"}

MissingToken == <<"missing", 0>>
EmptyToken == <<>>

\* ------------------------------------------------------------------- state
VARIABLES
    args,             \* the arguments of the call
    cloud,            \* the points stored in a sweep's file
    nFrames,          \* number of sample_data records of the scene's chain
    malformed,        \* the last record's `next` names a record that is missing
    channel,          \* the local `channel` (rebound by the camera loop)
    pc,               \* position in export_scene_pointcloud
    err,              \* the exception that left the function, or "none"
    numGets,          \* record-store lookups made so far
    fileOpened,       \* out_path was opened for writing (created / truncated)
    out,              \* the lines of out_path
    stdout,           \* what verbose=True printed
    has_more_frames,
    frame_ind,
    sd_rec,           \* the current sample_data record
    ego,              \* ego pose of the current sweep
    lag,              \* displacement of the camera ego poses of the current sample
    points,           \* pc.points, one column per entry
    coloring,         \* the colouring buffer, one column per entry
    camIdx,           \* position of the camera loop in camera_channels
    frameStart,       \* length of `out` when the current frame began
    camLog            \* what pointcloud_color_from_image returned, per camera of the frame

vars ==
    <<args, cloud, nFrames, malformed, channel, pc, err, numGets, fileOpened, out,
      stdout, has_more_frames, frame_ind, sd_rec, ego, lag, points, coloring,
      camIdx, frameStart, camLog>>

\* ---------------------------------------------------------- the record store
Sensors == DOMAIN CalibratedSensor

\* The sample_data record of sweep tok[2] of sensor tok[1].
SampleData(tok) ==
    [ token |-> tok,
      filename |-> tok,
      sample_token |-> tok[2],
      calibrated_sensor_token |-> tok[1],
      ego_pose_token |-> tok,
      next |-> IF tok[2] < nFrames THEN <<tok[1], tok[2] + 1>>
               ELSE IF malformed THEN MissingToken ELSE EmptyToken ]

\* nusc.get('sample_data', tok) raises for a token the table does not hold.
HasSampleData(tok) ==
    /\ Len(tok) = 2
    /\ tok[1] \in Sensors
    /\ tok[2] \in 1..nFrames

\* The sample record: one sample_data token per sensor.
Sample(tok) == [token |-> tok, data |-> [ch \in Sensors |-> <<ch, tok>>]]

\* The ego_pose record of a sample_data of the current sample: the sweep's own
\* pose for the point sensor, the displaced pose for a camera image.
EgoPose(tok) ==
    IF tok[1] \in Range(camera_channels)
    THEN [ rotation |-> ego.rotation,
           translation |-> Translate(ego.translation,
                                     Rotate(<<lag, 0, 0>>, RotationMatrix(ego.rotation))) ]
    ELSE ego

\* PointCloud.from_file: the points stored in the file of a sweep.
FromFile(filename) == cloud

\* A variant whose third step rotates before it translates.
FrameChain_RotateFirst(p, cs_src, ego_src, ego_dst, cs_dst) ==
    LET p1 == Translate(Rotate(p, RotationMatrix(cs_src.rotation)), cs_src.translation)
        p2 == Translate(Rotate(p1, RotationMatrix(ego_src.rotation)), ego_src.translation)
        p3 == Translate(Rotate(p2, Transpose(RotationMatrix(ego_dst.rotation))),
                        Neg(ego_dst.translation))
        p4 == Rotate(Translate(p3, Neg(cs_dst.translation)),
                     Transpose(RotationMatrix(cs_dst.rotation)))
    IN  p4

\* ------------------------------------------------ pointcloud_color_from_image
\* Steps one to four: sensor frame -> ego -> global -> ego at the time of the
\* image -> camera frame.
FrameChain(p, cs_src, ego_src, ego_dst, cs_dst) ==
    LET p1 == Translate(Rotate(p, RotationMatrix(cs_src.rotation)), cs_src.translation)
        p2 == Translate(Rotate(p1, RotationMatrix(ego_src.rotation)), ego_src.translation)
        p3 == Rotate(Translate(p2, Neg(ego_dst.translation)),
                     Transpose(RotationMatrix(ego_dst.rotation)))
        p4 == Rotate(Translate(p3, Neg(cs_dst.translation)),
                     Transpose(RotationMatrix(cs_dst.rotation)))
    IN  p4

\* A variant whose margins include the pixel at distance one from a border.
VisibilityMask_Inclusive(depth, proj, size) ==
    /\ depth > 0
    /\ ~FracLT(proj.u, 1)
    /\ ~FracGT(proj.u, size[1] - 1)
    /\ ~FracLT(proj.v, 1)
    /\ ~FracGT(proj.v, size[2] - 1)

\* The mask of one point: in front of the camera and more than one pixel
\* inside every border of the image.
VisibilityMask(depth, proj, size) ==
    /\ depth > 0
    /\ FracGT(proj.u, 1)
    /\ FracLT(proj.u, size[1] - 1)
    /\ FracGT(proj.v, 1)
    /\ FracLT(proj.v, size[2] - 1)

\* p[:2].round().astype(np.int32) of one coordinate.
PixelIndex(fr) ==
    IF fr[2] > 0 THEN RoundHalfEven(fr)
    ELSE IF fr[2] < 0 THEN RoundHalfEven(<<0 - fr[1], 0 - fr[2]>>)
    ELSE (0 - 2147483647) - 1

\* im_data[row, col, :]: a negative index counts from the end, an index
\* outside the array raises IndexError.
ImRead(cam, row, col) ==
    LET w == ImSize[cam][1]
        h == ImSize[cam][2]
    IN  IF row >= 0 - h /\ row < h /\ col >= 0 - w /\ col < w
        THEN [ok |-> TRUE, rgb |-> ImData(cam)[row % h][col % w]]
        ELSE [ok |-> FALSE, rgb |-> <<>>]

\* The pixel the code reads for the projected point proj.
\* (The variant reads row round(u), column round(v).)
ReadPixel_Swapped(cam, proj) == ImRead(cam, PixelIndex(proj.u), PixelIndex(proj.v))

ReadPixel(cam, proj) == ImRead(cam, PixelIndex(proj.v), PixelIndex(proj.u))

\* The sequence <<Op(1), ..., Op(n)>>.
SeqOf(n, Op(_)) ==
    LET F[i \in 0..n] == IF i = 0 THEN <<>> ELSE Append(F[i - 1], Op(i))
    IN  F[n]

\* The indices a boolean mask selects, in order: a[:, mask].
Selected(mask) ==
    Let1(mask, LAMBDA m :
    LET F[i \in 0..Len(m)] ==
          IF i = 0 THEN <<>>
          ELSE IF m[i] THEN Append(F[i - 1], i) ELSE F[i - 1]
    IN  F[Len(m)])

\* Camera-frame coordinates of the point p of the sweep pointsensor_token.
CamLocal(pointsensor_token, camera_token, p) ==
    LET cam == SampleData(camera_token)
        pointsensor == SampleData(pointsensor_token)
    IN  FrameChain(p,
                   CalibratedSensor[pointsensor.calibrated_sensor_token],
                   EgoPose(pointsensor.ego_pose_token),
                   EgoPose(cam.ego_pose_token),
                   CalibratedSensor[cam.calibrated_sensor_token])

\* Step five for one point, local its camera-frame coordinates: the depth,
\* the projected point and the mask.
PointInImage(local, cam) ==
    Let1(local, LAMBDA l :
    Let1(view_points(l, CalibratedSensor[cam].camera_intrinsic), LAMBDA pr :
      [depth |-> l[3], point |-> pr, mask |-> VisibilityMask(l[3], pr, ImSize[cam])]))

\* The function's result: the colours of the selected points and the mask;
\* with them, whether every pixel read was inside the image, and the depths
\* and projected coordinates the mask was computed from.
pointcloud_color_from_image(pointsensor_token, camera_token) ==
    LET cam == SampleData(camera_token)
        pointsensor == SampleData(pointsensor_token)
        pts == FromFile(pointsensor.filename)
        n == Len(pts)
    IN  Let1(SeqOf(n, LAMBDA i :
               PointInImage(CamLocal(pointsensor_token, camera_token, pts[i]),
                            cam.calibrated_sensor_token)), LAMBDA per :
        Let1(Selected(SeqOf(n, LAMBDA i : per[i].mask)), LAMBDA sel :
        Let1(SeqOf(Len(sel), LAMBDA j :
               ReadPixel(cam.calibrated_sensor_token, per[sel[j]].point)), LAMBDA px :
          [ coloring |-> SeqOf(Len(sel), LAMBDA j : px[j].rgb),
            mask |-> SeqOf(n, LAMBDA i : per[i].mask),
            ok |-> \A j \in 1..Len(sel) : px[j].ok,
            depths |-> SeqOf(n, LAMBDA i : per[i].depth),
            points |-> SeqOf(n, LAMBDA i : per[i].point) ])))

\* A variant in which a column that has a colour keeps it.
Overwrite_FirstWins(buf, mask, cam_coloring) ==
    Let1(Selected(mask), LAMBDA sel :
    LET rank(i) == CHOOSE j \in 1..Len(sel) : sel[j] = i
    IN  SeqOf(Len(buf), LAMBDA i :
          IF mask[i] /\ buf[i] = <<-1, -1, -1>> THEN cam_coloring[rank(i)] ELSE buf[i]))

\* A variant that assigns the first channel only.
Overwrite_OneChannel(buf, mask, cam_coloring) ==
    Let1(Selected(mask), LAMBDA sel :
    LET rank(i) == CHOOSE j \in 1..Len(sel) : sel[j] = i
    IN  SeqOf(Len(buf), LAMBDA i :
          IF mask[i] THEN <<cam_coloring[rank(i)][1], buf[i][2], buf[i][3]>> ELSE buf[i]))

\* coloring[:, cam_mask] = cam_coloring
Overwrite(buf, mask, cam_coloring) ==
    Let1(Selected(mask), LAMBDA sel :
    LET rank(i) == CHOOSE j \in 1..Len(sel) : sel[j] = i
    IN  SeqOf(Len(buf), LAMBDA i : IF mask[i] THEN cam_coloring[rank(i)] ELSE buf[i]))

\* a[:, keep]
Compress(a, keep) ==
    Let1(Selected(keep), LAMBDA sel : SeqOf(Len(sel), LAMBDA j : a[sel[j]]))

\* np.sum(p ** 2): the squared distance from the origin.
SumSq(p) == Let1(p, LAMBDA a : a[1]*a[1] + a[2]*a[2] + a[3]*a[3])

\* A variant with exclusive bounds.
Keep_Strict(p) ==
    Let1(SumSq(p), LAMBDA s : min_dist * min_dist < s /\ s < max_dist * max_dist)

\* min_dist <= sqrt(s) and sqrt(s) <= max_dist, for the integers s, min_dist,
\* max_dist >= 0: sqrt is monotone and exact on squares.
Keep(p) ==
    Let1(SumSq(p), LAMBDA s : min_dist * min_dist <= s /\ s <= max_dist * max_dist)

\* One vertex line: position with 8 decimals, colour / 255 with 4 decimals.
VertexLine(v, c) ==
    [ v |-> <<Fmt8(v[1]), Fmt8(v[2]), Fmt8(v[3])>>,
      c |-> <<Fmt4(c[1]), Fmt4(c[2]), Fmt4(c[3])>> ]

\* A variant that finds every colour assigned.
HasNoColor_Never(c) == FALSE

\* (c == -1).any()
HasNoColor(c) == \E k \in 1..3 : c[k] = -1

NoPose == [rotation |-> <<1, 0, 0, 0>>, translation |-> <<0, 0, 0>>]

\* ---------------------------------------------------- export_scene_pointcloud
\* A call export_scene_pointcloud(explorer, out_path, scene_token, channel)
\* with the default min_dist, max_dist and verbose, on a data set whose scene
\* has nFrames chained records per sensor.  The module-level name `nusc` the
\* camera loop reads is bound to explorer.nusc, as the script binds it.
Init ==
    /\ args \in [channel : InputChannels]
    /\ cloud \in [1..NumPoints -> PointSet]
    /\ nFrames \in 1..MaxFrames
    /\ malformed \in BOOLEAN
    /\ channel = args.channel
    /\ pc = "check_inputs"
    /\ err = "none"
    /\ numGets = 0
    /\ fileOpened = FALSE
    /\ out = <<>>
    /\ stdout = <<>>
    /\ has_more_frames = FALSE
    /\ frame_ind = 0
    /\ sd_rec = [token |-> EmptyToken]
    /\ ego = NoPose
    /\ lag = 0
    /\ points = <<>>
    /\ coloring = <<>>
    /\ camIdx = 0
    /\ frameStart = 0
    /\ camLog = <<>>

\* assert channel in valid_channels
CheckInputs ==
    /\ pc = "check_inputs"
    /\ IF channel \in Range(valid_channels)
       THEN pc' = "get_records" /\ err' = err
       ELSE pc' = "failed" /\ err' = "AssertionError"
    /\ UNCHANGED <<args, cloud, nFrames, malformed, channel, numGets, fileOpened, out,
                   stdout, has_more_frames, frame_ind, sd_rec, ego, lag, points,
                   coloring, camIdx, frameStart, camLog>>

\* scene_rec, start_sample_rec, sd_rec: three lookups; the sample has no data
\* of a sensor that does not exist.
GetRecords ==
    /\ pc = "get_records"
    /\ LET start_sample_rec == Sample(1)
       IN  IF channel \in DOMAIN start_sample_rec.data
           THEN /\ sd_rec' = SampleData(start_sample_rec.data[channel])
                /\ numGets' = numGets + 3
                /\ pc' = "open"
                /\ err' = err
           ELSE /\ sd_rec' = sd_rec
                /\ numGets' = numGets + 2
                /\ pc' = "failed"
                /\ err' = "KeyError"
    /\ UNCHANGED <<args, cloud, nFrames, malformed, channel, fileOpened, out, stdout,
                   has_more_frames, frame_ind, ego, lag, points, coloring, camIdx,
                   frameStart, camLog>>

\* has_more_frames = True; frame_ind = 0; open(out_path, 'w'); the header line.
OpenFile ==
    /\ pc = "open"
    /\ has_more_frames' = TRUE
    /\ frame_ind' = 0
    /\ fileOpened' = TRUE
    /\ out' = <<"OBJ File:">>
    /\ pc' = "frame"
    /\ UNCHANGED <<args, cloud, nFrames, malformed, channel, err, numGets, stdout,
                   sd_rec, ego, lag, points, coloring, camIdx, frameStart, camLog>>

\* Top of the loop body: the message, sample_rec, lidar_rec, the sweep's
\* points and a colouring buffer of sentinels.  The ego pose records of the
\* sample are whatever the data set holds for it.
LoadFrame ==
    /\ pc = "frame"
    /\ has_more_frames
    /\ stdout' = Append(stdout, <<"Processing frame", sd_rec.filename>>)
    /\ numGets' = numGets + 2
    /\ \E fp \in FramePoses : ego' = fp.ego /\ lag' = fp.lag
    /\ points' = FromFile(SampleData(sd_rec.token).filename)
    /\ coloring' = SeqOf(Len(FromFile(SampleData(sd_rec.token).filename)),
                          LAMBDA i : <<-1, -1, -1>>)
    /\ camIdx' = 1
    /\ frameStart' = Len(out)
    /\ camLog' = <<>>
    /\ pc' = "cameras"
    /\ UNCHANGED <<args, cloud, nFrames, malformed, channel, err, fileOpened, out,
                   has_more_frames, frame_ind, sd_rec>>

\* One pass of `for channel in camera_channels`: six lookups inside
\* pointcloud_color_from_image, then the overwrite of the selected columns.
CameraStep ==
    /\ pc = "cameras"
    /\ LET cam == camera_channels[camIdx]
           sample_rec == Sample(sd_rec.sample_token)
           lidar_token == sd_rec.token
           camera_token == sample_rec.data[cam]
       IN  \E res \in {pointcloud_color_from_image(lidar_token, camera_token)} :
           /\ channel' = cam
           /\ numGets' = numGets + 6
           /\ IF res.ok
              THEN /\ coloring' = Overwrite(coloring, res.mask, res.coloring)
                   /\ camLog' = Append(camLog, res)
                   /\ camIdx' = camIdx + 1
                   /\ pc' = IF camIdx = Len(camera_channels) THEN "to_ego" ELSE "cameras"
                   /\ err' = err
              ELSE /\ pc' = "failed"
                   /\ err' = "IndexError"
                   /\ UNCHANGED <<coloring, camIdx, camLog>>
    /\ UNCHANGED <<args, cloud, nFrames, malformed, fileOpened, out, stdout,
                   has_more_frames, frame_ind, sd_rec, ego, lag, points, frameStart>>

\* First step: sensor frame -> ego frame of the sweep.
ToEgo ==
    /\ pc = "to_ego"
    /\ LET lidar_rec == SampleData(sd_rec.token)
           cs_record == CalibratedSensor[lidar_rec.calibrated_sensor_token]
       IN  points' = SeqOf(Len(points), LAMBDA i :
                        Translate(Rotate(points[i], RotationMatrix(cs_record.rotation)),
                                  cs_record.translation))
    /\ numGets' = numGets + 1
    /\ pc' = "filter"
    /\ UNCHANGED <<args, cloud, nFrames, malformed, channel, err, fileOpened, out,
                   stdout, has_more_frames, frame_ind, sd_rec, ego, lag, coloring,
                   camIdx, frameStart, camLog>>

\* The distance filter, on points and colouring alike, and its message.
DistanceFilter ==
    /\ pc = "filter"
    /\ \E keep \in {SeqOf(Len(points), LAMBDA i : Keep(points[i]))} :
           /\ points' = Compress(points, keep)
           /\ coloring' = Compress(coloring, keep)
           /\ stdout' = Append(stdout, <<"Distance filter", Len(Selected(keep)), Len(keep)>>)
    /\ pc' = "to_global"
    /\ UNCHANGED <<args, cloud, nFrames, malformed, channel, err, numGets, fileOpened,
                   out, has_more_frames, frame_ind, sd_rec, ego, lag, camIdx, frameStart, camLog>>

\* Second step: ego frame -> global frame.
ToGlobal ==
    /\ pc = "to_global"
    /\ LET lidar_rec == SampleData(sd_rec.token)
           poserecord == EgoPose(lidar_rec.ego_pose_token)
       IN  points' = SeqOf(Len(points), LAMBDA i :
                        Translate(Rotate(points[i], RotationMatrix(poserecord.rotation)),
                                  poserecord.translation))
    /\ numGets' = numGets + 1
    /\ pc' = "write"
    /\ UNCHANGED <<args, cloud, nFrames, malformed, channel, err, fileOpened, out,
                   stdout, has_more_frames, frame_ind, sd_rec, ego, lag, coloring,
                   camIdx, frameStart, camLog>>

\* One vertex line for every point that has a colour.
WritePoints ==
    /\ pc = "write"
    /\ \E sel \in {Selected(SeqOf(Len(points), LAMBDA i : ~HasNoColor(coloring[i])))} :
           out' = out \o SeqOf(Len(sel), LAMBDA j : VertexLine(points[sel[j]], coloring[sel[j]]))
    /\ pc' = "advance"
    /\ UNCHANGED <<args, cloud, nFrames, malformed, channel, err, numGets, fileOpened,
                   stdout, has_more_frames, frame_ind, sd_rec, ego, lag, points,
                   coloring, camIdx, frameStart, camLog>>

\* A variant that stops after the first sweep whatever `next` holds.
Advance_StopsAtOnce ==
    /\ pc = "advance"
    /\ has_more_frames' = FALSE
    /\ frame_ind' = frame_ind + 1
    /\ pc' = "frame"
    /\ UNCHANGED <<sd_rec, numGets, err>>
    /\ UNCHANGED <<args, cloud, nFrames, malformed, channel, fileOpened, out, stdout,
                   ego, lag, points, coloring, camIdx, frameStart, camLog>>

\* A variant that takes a failed lookup for the end of the chain.
Advance_SilentStop ==
    /\ pc = "advance"
    /\ IF sd_rec.next # EmptyToken /\ HasSampleData(sd_rec.next)
       THEN /\ numGets' = numGets + 1
            /\ sd_rec' = SampleData(sd_rec.next)
            /\ frame_ind' = frame_ind + 1
            /\ pc' = "frame"
            /\ UNCHANGED has_more_frames
       ELSE /\ has_more_frames' = FALSE
            /\ frame_ind' = frame_ind + 1
            /\ pc' = "frame"
            /\ UNCHANGED <<sd_rec, numGets>>
    /\ UNCHANGED <<args, cloud, nFrames, malformed, channel, err, fileOpened, out, stdout,
                   ego, lag, points, coloring, camIdx, frameStart, camLog>>

\* The end of the loop body: follow `next`, or stop at the empty string.
Advance ==
    /\ pc = "advance"
    /\ IF sd_rec.next # EmptyToken
       THEN /\ numGets' = numGets + 1
            /\ IF HasSampleData(sd_rec.next)
               THEN /\ sd_rec' = SampleData(sd_rec.next)
                    /\ frame_ind' = frame_ind + 1
                    /\ pc' = "frame"
                    /\ err' = err
               ELSE /\ pc' = "failed"
                    /\ err' = "KeyError"
                    /\ UNCHANGED <<sd_rec, frame_ind>>
            /\ UNCHANGED has_more_frames
       ELSE /\ has_more_frames' = FALSE
            /\ frame_ind' = frame_ind + 1
            /\ pc' = "frame"
            /\ UNCHANGED <<sd_rec, numGets, err>>
    /\ UNCHANGED <<args, cloud, nFrames, malformed, channel, fileOpened, out, stdout,
                   ego, lag, points, coloring, camIdx, frameStart, camLog>>

\* `while has_more_frames` is false: the file is closed and the call returns.
Return ==
    /\ pc = "frame"
    /\ ~has_more_frames
    /\ pc' = "done"
    /\ UNCHANGED <<args, cloud, nFrames, malformed, channel, err, numGets, fileOpened,
                   out, stdout, has_more_frames, frame_ind, sd_rec, ego, lag, points,
                   coloring, camIdx, frameStart, camLog>>

Next ==
    \/ CheckInputs
    \/ GetRecords
    \/ OpenFile
    \/ LoadFrame
    \/ CameraStep
    \/ ToEgo
    \/ DistanceFilter
    \/ ToGlobal
    \/ WritePoints
    \/ Advance
    \/ Return

Spec == Init /\ [][Next]_vars

\* The interpreter runs the call to its end: every step that can be taken is.
FairSpec == Spec /\ WF_vars(Next)

\* ================================================================ properties
\* What the properties below are stated in: the frames of one sweep, the
\* lines the current frame wrote, and what the cameras returned for a point.

\* The six channel names the function accepts.
AllowedChannels ==
    {"LIDAR_TOP", "RADAR_FRONT", "RADAR_FRONT_RIGHT", "RADAR_FRONT_LEFT",
     "RADAR_BACK_LEFT", "RADAR_BACK_RIGHT"}

\* Ego-frame and global-frame coordinates of a point of the current sweep.
EgoCoords(p) ==
    LET cs == CalibratedSensor[sd_rec.calibrated_sensor_token]
    IN  Translate(Rotate(p, RotationMatrix(cs.rotation)), cs.translation)

GlobalCoords(p) ==
    Translate(Rotate(EgoCoords(p), RotationMatrix(ego.rotation)), ego.translation)

\* The distance from the ego-frame origin lies in [min_dist, max_dist].
InRange(e) ==
    /\ min_dist * min_dist <= e[1]*e[1] + e[2]*e[2] + e[3]*e[3]
    /\ e[1]*e[1] + e[2]*e[2] + e[3]*e[3] <= max_dist * max_dist

\* The vertex lines the current frame wrote.
FrameLines == SubSeq(out, frameStart + 1, Len(out))

\* Line k of the frame is the line of point i of the sweep.
IsLineOf(k, i) == FrameLines[k].v = VertexLine(GlobalCoords(cloud[i]), <<0, 0, 0>>).v

\* The cameras (positions in camera_channels) whose mask held for point i.
SeenBy(i) == {c \in 1..Len(camLog) : camLog[c].mask[i]}

\* The sample camera c returned for point i, i selected by its mask.
SampleFrom(c, i) ==
    camLog[c].coloring[Cardinality({j \in 1..i : camLog[c].mask[j]})]

LastCamera(i) == CHOOSE c \in SeenBy(i) : \A d \in SeenBy(i) : d <= c

Sentinel == <<-1, -1, -1>>

\* The sweeps announced on stdout, in order.
FramesLogged ==
    LET msgs == SelectSeq(stdout, LAMBDA m : m[1] = "Processing frame")
    IN  SeqOf(Len(msgs), LAMBDA k : msgs[k][2])

\* The chain of the primary channel, in link order.
Chain == SeqOf(nFrames, LAMBDA i : <<args.channel, i>>)

\* The call names an allowed channel the scene has records of.
Recorded == args.channel \in AllowedChannels /\ args.channel \in Sensors

IsPrefix(s, t) == Len(s) <= Len(t) /\ s = SubSeq(t, 1, Len(s))

\* n is the integer nearest to the fraction fr (fr[2] > 0), a half going to
\* the even neighbour.
IsNearest(n, fr) ==
    LET d == 2 * (fr[1] - n * fr[2])
        a == IF d < 0 THEN 0 - d ELSE d
    IN  a < fr[2] \/ (a = fr[2] /\ n % 2 = 0)

\* C1: every vertex line of a frame carries the sample of the last camera, in
\* the order of camera_channels, whose mask held for the line's point; the
\* distance filter leaves each colour with its point.
C1_LastCameraWins ==
    pc = "advance" =>
        /\ \A k \in DOMAIN FrameLines : \E i \in DOMAIN cloud : IsLineOf(k, i)
        /\ \A k \in DOMAIN FrameLines : \A i \in DOMAIN cloud :
             IsLineOf(k, i) =>
               /\ SeenBy(i) # {}
               /\ FrameLines[k].c
                    = VertexLine(cloud[i], SampleFrom(LastCamera(i), i)).c

\* A frame wrote a point that several cameras saw, after an earlier point of
\* the sweep that had a colour was removed by the distance filter.
C1_Witness ==
    /\ pc = "advance"
    /\ \E i, j \in DOMAIN cloud :
         /\ j < i
         /\ ~InRange(EgoCoords(cloud[j]))
         /\ SeenBy(j) # {}
         /\ InRange(EgoCoords(cloud[i]))
         /\ Cardinality(SeenBy(i)) >= 2
         /\ SampleFrom(LastCamera(i), i) # SampleFrom(CHOOSE c \in SeenBy(i) : c # LastCamera(i), i)
         /\ \E k \in DOMAIN FrameLines : IsLineOf(k, i)

\* C2: on a well-formed chain of nFrames records the sweeps are processed in
\* link order, each once, none after the last, and the call returns.
C2_Traversal ==
    /\ []( (Recorded /\ ~malformed) =>
             /\ IsPrefix(FramesLogged, Chain)
             /\ pc # "failed"
             /\ (pc = "done" => FramesLogged = Chain /\ frame_ind = nFrames) )
    /\ ( (Recorded /\ ~malformed) ~> (pc = "done") )

C2_Witness ==
    /\ Recorded
    /\ ~malformed
    /\ nFrames >= 2
    /\ pc = "done"
    /\ FramesLogged = Chain

\* C3: a call with a channel outside the allowed set fails on the assertion;
\* it makes no lookup, processes no frame and never opens the output file.
C3_RejectsChannel ==
    args.channel \notin AllowedChannels =>
        /\ pc \in {"check_inputs", "failed"}
        /\ pc = "failed" => err = "AssertionError"
        /\ numGets = 0
        /\ ~fileOpened
        /\ out = <<>>
        /\ stdout = <<>>
        /\ frame_ind = 0

C3_Witness ==
    /\ args.channel \notin AllowedChannels
    /\ pc = "failed"
    /\ err = "AssertionError"

\* C4: a point is written exactly when it is within the distance interval and
\* some camera's mask held for it; a point no camera saw reaches the emission
\* with the sentinel colour, is not written, and raises nothing.
C4_WrittenIffSeen ==
    /\ pc = "advance" =>
         /\ \A i \in DOMAIN cloud :
              (InRange(EgoCoords(cloud[i])) /\ SeenBy(i) # {})
                <=> (\E k \in DOMAIN FrameLines : IsLineOf(k, i))
         /\ Len(FrameLines)
              = Cardinality({i \in DOMAIN cloud :
                               InRange(EgoCoords(cloud[i])) /\ SeenBy(i) # {}})
    /\ pc \in {"write", "advance"} =>
         \A j \in DOMAIN points : \A i \in DOMAIN cloud :
           points[j] = GlobalCoords(cloud[i]) => (SeenBy(i) = {} <=> coloring[j] = Sentinel)
    /\ (pc = "failed" /\ fileOpened) => (err = "KeyError" /\ malformed)

\* A frame kept a point no camera saw, wrote another one, and went on.
C4_Witness ==
    /\ pc = "advance"
    /\ \E i, j \in DOMAIN cloud :
         /\ InRange(EgoCoords(cloud[i]))
         /\ SeenBy(i) = {}
         /\ \E k \in DOMAIN FrameLines : IsLineOf(k, j)

\* C5: the distance filter keeps exactly the points whose ego-frame distance
\* is in [min_dist, max_dist], bounds included, and only those reach the
\* global frame.
C5_DistanceFilter ==
    LET egoAll == SeqOf(Len(cloud), LAMBDA i : EgoCoords(cloud[i]))
        egoKept == SelectSeq(egoAll, InRange)
    IN  /\ pc = "filter" => points = egoAll
        /\ pc = "to_global" => points = egoKept
        /\ pc \in {"write", "advance"} =>
             points = SeqOf(Len(egoKept), LAMBDA j :
                        Translate(Rotate(egoKept[j], RotationMatrix(ego.rotation)),
                                  ego.translation))

\* The filter kept a point at exactly min_dist or max_dist and removed one.
C5_Witness ==
    /\ pc = "to_global"
    /\ \E p \in Range(points) :
         \/ SumSq(p) = min_dist * min_dist
         \/ SumSq(p) = max_dist * max_dist
    /\ Len(points) < Len(cloud)

\* C6: the camera whose sample a line carries saw the point at a depth > 0
\* and more than one pixel inside every border; a point at pixel (0, 0) and
\* depth 5 of the only camera in front of which it could lie is not written.
C6_InsideMargin ==
    pc = "advance" =>
        /\ \A k \in DOMAIN FrameLines : \A i \in DOMAIN cloud :
             IsLineOf(k, i) =>
               LET c == LastCamera(i)
                   size == ImSize[camera_channels[c]]
                   u == camLog[c].points[i].u
                   v == camLog[c].points[i].v
               IN  /\ camLog[c].depths[i] > 0
                   /\ u[2] > 0
                   /\ v[2] > 0
                   /\ u[1] > u[2]
                   /\ u[1] < (size[1] - 1) * u[2]
                   /\ v[1] > v[2]
                   /\ v[1] < (size[2] - 1) * v[2]
        /\ \A i \in DOMAIN cloud : \A c \in DOMAIN camLog :
             ( /\ camLog[c].depths[i] = 5
               /\ camLog[c].points[i].u = <<0, 5>>
               /\ camLog[c].points[i].v = <<0, 5>>
               /\ \A d \in DOMAIN camLog : d # c => ~camLog[d].mask[i] )
             => ~\E k \in DOMAIN FrameLines : IsLineOf(k, i)

\* A frame wrote a point and dropped one that lies at pixel (0, 0), depth 5.
C6_Witness ==
    /\ pc = "advance"
    /\ Len(FrameLines) > 0
    /\ \E i \in DOMAIN cloud : \E c \in DOMAIN camLog :
         /\ camLog[c].depths[i] = 5
         /\ camLog[c].points[i].u = <<0, 5>>
         /\ camLog[c].points[i].v = <<0, 5>>
         /\ InRange(EgoCoords(cloud[i]))

\* C7: with the destination poses equal to the source poses the four steps
\* return every point to where it was.
C7_RoundTrip ==
    (pc = "to_ego" /\ frame_ind = 0) =>
        \A i \in DOMAIN cloud : \A s \in Sensors :
            FrameChain(cloud[i], CalibratedSensor[s], ego, ego, CalibratedSensor[s]) = cloud[i]

\* The chain ran for a sweep whose ego pose is rotated, and moved a point.
C7_Witness ==
    /\ pc = "to_ego"
    /\ frame_ind = 0
    /\ ego.rotation # <<1, 0, 0, 0>>
    /\ \E i \in DOMAIN cloud :
         CamLocal(sd_rec.token, <<"CAM_BACK", sd_rec.sample_token>>, cloud[i]) # cloud[i]

\* C8: when the last record's `next` names a missing record the lookup is
\* made and its error leaves the function; the call never returns normally.
C8_MissingRecord ==
    /\ []( (Recorded /\ malformed) =>
             /\ pc # "done"
             /\ (pc = "failed" =>
                   /\ err = "KeyError"
                   /\ FramesLogged = Chain
                   /\ numGets = 3 + nFrames * (2 + 6 * Len(camera_channels) + 2) + nFrames) )
    /\ ( (Recorded /\ malformed) ~> (pc = "failed") )

C8_Witness ==
    /\ Recorded
    /\ malformed
    /\ pc = "failed"
    /\ err = "KeyError"
    /\ Len(FramesLogged) = nFrames

\* C9: for every point a camera's mask holds for, the nearest pixel lies
\* inside the image, and the colour taken is the pixel at that row and column.
C9_PixelInside ==
    /\ err # "IndexError"
    /\ (pc = "cameras" /\ camIdx = 1) =>
         \A side \in 3..MaxSide : \A d \in 1..MaxDen : \A n \in 0..(MaxSide * MaxDen) :
           (FracGT(<<n, d>>, 1) /\ FracLT(<<n, d>>, side - 1)) =>
             /\ PixelIndex(<<n, d>>) \in 0..(side - 1)
             /\ IsNearest(PixelIndex(<<n, d>>), <<n, d>>)
    /\ (pc \in {"cameras", "to_ego"} /\ Len(camLog) >= 1) =>
         LET c == Len(camLog)
             cam == camera_channels[c]
         IN  \A i \in DOMAIN cloud :
               camLog[c].mask[i] =>
                 \E col \in 0..(ImSize[cam][1] - 1) : \E row \in 0..(ImSize[cam][2] - 1) :
                    /\ IsNearest(col, camLog[c].points[i].u)
                    /\ IsNearest(row, camLog[c].points[i].v)
                    /\ coloring[i] = ImData(cam)[row][col]

\* A camera coloured a point whose u is half-way between two columns, and one
\* whose nearest column is the last column of the image.
C9_Witness ==
    /\ pc \in {"cameras", "to_ego"}
    /\ Len(camLog) >= 1
    /\ LET c == Len(camLog)
           cam == camera_channels[c]
       IN  \E i \in DOMAIN cloud :
             /\ camLog[c].mask[i]
             /\ \/ 2 * camLog[c].points[i].u[1] % (2 * camLog[c].points[i].u[2])
                     = camLog[c].points[i].u[2]
                \/ IsNearest(ImSize[cam][1] - 1, camLog[c].points[i].u)

\* C10: every entry of the colouring buffer is the sentinel in all three
\* channels or a pixel value in all three, and a frame writes exactly the
\* entries that are not the sentinel.
C10_NoPartialColor ==
    /\ \A j \in DOMAIN coloring :
         \/ coloring[j] = Sentinel
         \/ \A k \in 1..3 : coloring[j][k] \in 0..255
    /\ pc = "advance" =>
         Len(FrameLines) = Cardinality({j \in DOMAIN coloring : coloring[j] # Sentinel})

\* A frame reached the emission with a coloured and an uncoloured entry.
C10_Witness ==
    /\ pc = "advance"
    /\ \E j, k \in DOMAIN coloring : coloring[j] = Sentinel /\ coloring[k] # Sentinel

====
